---- MODULE Spec2Model ----
(***************************************************************************)
(* Model of app.py, the SNS caption generator: the prompt builder          *)
(* (build_prompt_template), the response parser (parse_captions) and the   *)
(* script body that runs on a form submission (validation, caption call,   *)
(* fallback, rendering, best-effort summary call).                         *)
(*                                                                         *)
(* A text that the code inspects character by character (the description,  *)
(* the raw completion, a caption) is a sequence of one-character strings.  *)
(* A text the code only assembles (a prompt, a rendered element) is a      *)
(* sequence of string pieces; it denotes their concatenation.              *)
(***************************************************************************)
EXTENDS Integers, Sequences, FiniteSets, TLC

VARIABLES
    pc,            \* position of the script run
    description,   \* st.text_area value                     (app.py:67)
    platform,      \* st.selectbox value                     (app.py:70)
    tone,          \* st.selectbox value                     (app.py:72)
    language,      \* st.selectbox value                     (app.py:74)
    num_variants,  \* st.slider value                        (app.py:75)
    calls,         \* completion-API calls issued by this run, in order
    raw_output,    \* raw_output of app.py:93, Unbound or Bound(text)
    captions,      \* captions of app.py:94-97, Unbound or Bound(list)
    caught,        \* the exception e of app.py:99, Unbound or Bound(cause)
    summary,       \* summary of app.py:124, Unbound or Bound(text)
    ui,            \* elements rendered by the `if submitted:` block, in order
    parse_in,      \* argument of a stand-alone parse_captions application
    parse_out,     \* its result, Unbound before the application
    prompt_args,   \* arguments of two stand-alone prompt constructions
    prompt_out     \* their results, each Unbound before the construction

vars == <<pc, description, platform, tone, language, num_variants, calls,
          raw_output, captions, caught, summary, ui,
          parse_in, parse_out, prompt_args, prompt_out>>

runVars == <<pc, description, platform, tone, language, num_variants, calls,
             raw_output, captions, caught, summary, ui>>

\* A name of the script is Unbound before its assignment and Bound(v) after it.
Unbound == <<>>
Bound(v) == <<v>>
IsBound(x) == x # <<>>
ValueOf(x) == x[1]

\* The slider of app.py:75.
MinVariants == 3
MaxVariants == 8
DefaultVariants == 5

(***************************************************************************)
(* Bounds of the model.                                                    *)
(***************************************************************************)
MaxRawLen == 6      \* longest raw text given to the stand-alone parser
MaxReplyLen == 3    \* longest free-form completion returned to a script run
MaxReplyLines == 4  \* most lines of a list-shaped completion

(***************************************************************************)
(* Characters.                                                             *)
(***************************************************************************)
Alphabet == {"1", ".", ")", " ", "\n", "a"}

\* Whitespace as str.strip() sees it, for the characters of the alphabet
\* (and tab).  "\n" is the only line break of the alphabet.
IsSpace(c) == c \in {" ", "\n", "\t"}

\* str.isdigit, on the ASCII digits.
IsDigit(c) == c \in {"0", "1", "2", "3", "4", "5", "6", "7", "8", "9"}

TextsUpTo(n) == UNION {[1..k -> Alphabet] : k \in 0..n}

(***************************************************************************)
(* Python string methods used by the code.                                 *)
(***************************************************************************)
RECURSIVE LStrip(_)
LStrip(s) ==
    IF s # <<>> /\ IsSpace(Head(s)) THEN LStrip(Tail(s)) ELSE s

RECURSIVE RStrip(_)
RStrip(s) ==
    IF s # <<>> /\ IsSpace(s[Len(s)]) THEN RStrip(SubSeq(s, 1, Len(s) - 1)) ELSE s

\* str.strip()
Strip(s) == RStrip(LStrip(s))

\* Position of the first occurrence of c in s at or after i; 0 if there is none.
RECURSIVE Find(_, _, _)
Find(s, c, i) ==
    IF i > Len(s) THEN 0
    ELSE IF s[i] = c THEN i
    ELSE Find(s, c, i + 1)

\* c in s
Contains(s, c) == Find(s, c, 1) # 0

\* s.split(c, 1)[1], for s that contains c
SplitAfter(s, c) == SubSeq(s, Find(s, c, 1) + 1, Len(s))

\* str.splitlines(): a final line break does not open another line.
RECURSIVE SplitLines(_)
SplitLines(s) ==
    IF s = <<>> THEN <<>>
    ELSE LET k == Find(s, "\n", 1)
         IN  IF k = 0 THEN <<s>>
             ELSE <<SubSeq(s, 1, k - 1)>> \o SplitLines(SubSeq(s, k + 1, Len(s)))

(***************************************************************************)
(* parse_captions (app.py:38-52).                                          *)
(***************************************************************************)
\* The comprehension of app.py:40.
StrippedLines(raw) ==
    LET split == SplitLines(Strip(raw))
        kept == SelectSeq(split, LAMBDA line : Strip(line) # <<>>)
    IN  [i \in 1..Len(kept) |-> Strip(kept[i])]

\* Mutant: looks for ")" before ".".
clean_line_paren_first(line) ==
    IF IsDigit(line[1])
    THEN IF Contains(line, ")") THEN Strip(SplitAfter(line, ")"))
         ELSE IF Contains(line, ".") THEN Strip(SplitAfter(line, "."))
         ELSE line
    ELSE line

\* The loop body of app.py:44-50, for a non-empty stripped line.
clean_line(line) ==
    IF IsDigit(line[1])
    THEN IF Contains(line, ".") THEN Strip(SplitAfter(line, "."))
         ELSE IF Contains(line, ")") THEN Strip(SplitAfter(line, ")"))
         ELSE line
    ELSE line

\* Mutant: keeps only the lines that start with a number or a dash.
parse_captions_listed_only(raw) ==
    LET lines == SelectSeq(StrippedLines(raw),
                           LAMBDA line : IsDigit(line[1]) \/ line[1] = "-")
    IN  [i \in 1..Len(lines) |-> clean_line(lines[i])]

\* Mutant: drops a caption that repeats the one before it.
RECURSIVE Dedup(_)
Dedup(s) ==
    IF Len(s) <= 1 THEN s
    ELSE IF s[1] = s[2] THEN Dedup(Tail(s))
    ELSE <<s[1]>> \o Dedup(Tail(s))

parse_captions_dedup(raw) ==
    LET lines == StrippedLines(raw)
    IN  Dedup([i \in 1..Len(lines) |-> clean_line(lines[i])])

parse_captions(raw) ==
    LET lines == StrippedLines(raw)
    IN  [i \in 1..Len(lines) |-> clean_line(lines[i])]

(***************************************************************************)
(* Prompt templates.  A template is a sequence of parts, each a literal or *)
(* a placeholder; format_messages replaces the placeholders.               *)
(***************************************************************************)
Lit(text) == [kind |-> "lit", text |-> text]
Var(name) == [kind |-> "var", text |-> name]

\* The options of the select boxes (app.py:70, 72, 74).  The tone and
\* language labels are written in English here.
Platforms == {"Instagram", "Twitter", "X", "Facebook", "TikTok", "LinkedIn", "Threads"}
Tones == {"Casual", "Emotional", "Professional", "Humorous", "Simple", "Passionate"}
Languages == {"Japanese", "English"}
NumVariants == MinVariants..MaxVariants

\* The f-string of app.py:15-23.
system_message(p, t, n) ==
    "\nYou are an expert copywriter for social media. \n"
    \o "Given a content description, generate " \o ToString(n)
    \o " unique short captions tailored for " \o p \o " in a " \o t \o " tone.\n"
    \o "Each caption should:\n"
    \o "- Fit typical length constraints of " \o p \o " (keep it concise)\n"
    \o "- Include 1-3 relevant hashtags at the end\n"
    \o "- Be distinct from each other\n"
    \o "Return the captions as a numbered list (1., 2., ...) with the caption only (no extra explanation).\n"

\* The template of app.py:25-28.
human_template == <<Lit("\nContent description:\n"), Var("description"), Lit("\n")>>

\* Mutant: the selected language is written into the instruction.
build_prompt_template_in_language(p, t, d, n, l) ==
    [system |-> <<Lit(system_message(p, t, n) \o "Write the captions in " \o l \o ".\n")>>,
     human  |-> human_template]

\* build_prompt_template (app.py:14-36).  The option strings hold no braces,
\* so the formatted system message is a template without placeholders.  The
\* parameters d (description) and l (language) are not used.
build_prompt_template(p, t, d, n, l) ==
    [system |-> <<Lit(system_message(p, t, n))>>,
     human  |-> human_template]

\* The summary prompt of app.py:117-122.
summary_prompt ==
    [system |-> <<Lit("You are an expert in Japanese summarisation. Read the content description below and summarise it in one short, natural Japanese sentence.")>>,
     human  |-> <<Var("description")>>]

\* One template with its placeholder replaced by the text d.
RECURSIVE Format(_, _)
Format(template, d) ==
    IF template = <<>> THEN <<>>
    ELSE (IF Head(template).kind = "lit" THEN <<Head(template).text>> ELSE d)
         \o Format(Tail(template), d)

\* The two messages chain.run({"description": d}) sends (app.py:93, 124).
format_messages(prompt, d) ==
    [system |-> Format(prompt.system, d), user |-> Format(prompt.human, d)]

(***************************************************************************)
(* Python list and string operations of the rendering code.                *)
(***************************************************************************)
\* list[:n]
Slice(list, n) == SubSeq(list, 1, IF n < Len(list) THEN n ELSE Len(list))

\* sep.join(list)
RECURSIVE Join(_, _)
Join(sep, list) ==
    IF list = <<>> THEN <<>>
    ELSE IF Len(list) = 1 THEN list[1]
    ELSE list[1] \o <<sep>> \o Join(sep, Tail(list))

\* Concatenation of a list of lists.
RECURSIVE Concat(_)
Concat(list) == IF list = <<>> THEN <<>> ELSE Head(list) \o Concat(Tail(list))

\* An element of the page.  The fixed Japanese texts of the elements are
\* written in English here.
Element(kind, text) == [kind |-> kind, text |-> text]

(***************************************************************************)
(* Stand-alone application of the parser to every raw text of the bound.   *)
(***************************************************************************)
RunIdle ==
    /\ pc = "idle"
    /\ description = <<>>
    /\ platform = "Instagram"
    /\ tone = "Casual"
    /\ language = "Japanese"
    /\ num_variants = DefaultVariants
    /\ calls = <<>>
    /\ raw_output = Unbound
    /\ captions = Unbound
    /\ caught = Unbound
    /\ summary = Unbound
    /\ ui = <<>>

ParseInit ==
    /\ RunIdle
    /\ parse_in \in TextsUpTo(MaxRawLen)
    /\ parse_out = Unbound
    /\ prompt_args = <<>>
    /\ prompt_out = <<>>

ApplyParse ==
    /\ ~IsBound(parse_out)
    /\ parse_out' = Bound(parse_captions(parse_in))
    /\ UNCHANGED <<parse_in, prompt_args, prompt_out>>
    /\ UNCHANGED runVars

ParseNext == ApplyParse

ParseSpec == ParseInit /\ [][ParseNext]_vars

(***************************************************************************)
(* Stand-alone construction of two prompts from arbitrary arguments.       *)
(***************************************************************************)
DescriptionSamples ==
    {<<>>, <<" ">>, <<"\n", " ">>, <<"a">>, <<" ", "a", "{", "b", "}", "\n">>}

PromptArgs ==
    [platform : {"Instagram", "X"}, tone : {"Casual", "Professional"},
     description : {<<"a">>, <<" ", "a", "{", "b", "}", "\n">>},
     num_variants : NumVariants, language : Languages]

PromptInit ==
    /\ RunIdle
    /\ parse_in = <<>>
    /\ parse_out = Unbound
    /\ prompt_args \in [1..2 -> PromptArgs]
    /\ prompt_out = <<Unbound, Unbound>>

\* Lines 90 and 93 for the i-th argument record: the prompt is built and
\* formatted with the description.
BuildPrompt(i) ==
    /\ ~IsBound(prompt_out[i])
    /\ LET a == prompt_args[i]
           prompt == build_prompt_template(a.platform, a.tone, a.description,
                                           a.num_variants, a.language)
       IN  prompt_out' =
               [prompt_out EXCEPT ![i] = Bound(format_messages(prompt, a.description))]
    /\ UNCHANGED <<parse_in, parse_out, prompt_args>>
    /\ UNCHANGED runVars

PromptNext == \E i \in 1..2 : BuildPrompt(i)

PromptSpec == PromptInit /\ [][PromptNext]_vars

(***************************************************************************)
(* The script run on a form submission (app.py:81-127).                    *)
(***************************************************************************)
\* The form values a submission is drawn from.
FormSamples ==
    {[platform |-> "Instagram", tone |-> "Casual", language |-> "Japanese"],
     [platform |-> "X", tone |-> "Professional", language |-> "English"]}

\* The slider positions a submission is drawn from.
VariantSamples == {MinVariants, DefaultVariants, MaxVariants}

\* The completions the API may return: every text of the alphabet up to
\* MaxReplyLen characters, and lists of up to MaxReplyLines marked lines.
ListLines == {<<"1", ".", " ", "a">>, <<"2", ")", "b">>}

ListReplies ==
    {Join("\n", ls) : ls \in UNION {[1..k -> ListLines] : k \in 1..MaxReplyLines}}

Replies == TextsUpTo(MaxReplyLen) \cup ListReplies

SummaryReplies == {<<"s">>, <<" ", "s", "\n">>}

\* The messages of the exceptions a completion call may raise.
Causes == {"timeout", "invalid api key"}

Init ==
    /\ RunIdle
    /\ parse_in = <<>>
    /\ parse_out = Unbound
    /\ prompt_args = <<>>
    /\ prompt_out = <<>>

standalone == <<parse_in, parse_out, prompt_args, prompt_out>>

\* The form is submitted with its values; the block of app.py:81 is entered
\* on a page that shows nothing of it yet (app.py:66-81).
Submit(d, form, n) ==
    /\ pc = "idle"
    /\ pc' = "validate"
    /\ description' = d
    /\ platform' = form.platform
    /\ tone' = form.tone
    /\ language' = form.language
    /\ num_variants' = n
    /\ UNCHANGED <<calls, raw_output, captions, caught, summary, ui>>
    /\ UNCHANGED standalone

\* The script has ended (its last line, or st.stop()).  The next run starts
\* from the top: no name of the script and no element of the page survives.
Rerun ==
    /\ pc \in {"done", "stopped"}
    /\ pc' = "idle"
    /\ description' = <<>>
    /\ platform' = "Instagram"
    /\ tone' = "Casual"
    /\ language' = "Japanese"
    /\ num_variants' = DefaultVariants
    /\ calls' = <<>>
    /\ raw_output' = Unbound
    /\ captions' = Unbound
    /\ caught' = Unbound
    /\ summary' = Unbound
    /\ ui' = <<>>
    /\ UNCHANGED standalone

\* Mutant: tests the description without stripping it.
is_blank_unstripped(d) == d = <<>>

\* not description.strip() (app.py:82)
is_blank(d) == Strip(d) = <<>>

\* app.py:82-84: st.error, st.stop().
ValidateFail ==
    /\ pc = "validate"
    /\ is_blank(description)
    /\ ui' = Append(ui, Element("error", <<"Please enter a description.">>))
    /\ pc' = "stopped"
    /\ UNCHANGED <<description, platform, tone, language, num_variants, calls,
                   raw_output, captions, caught, summary>>
    /\ UNCHANGED standalone

ValidateOk ==
    /\ pc = "validate"
    /\ ~is_blank(description)
    /\ pc' = "generate"
    /\ UNCHANGED <<description, platform, tone, language, num_variants, calls,
                   raw_output, captions, caught, summary, ui>>
    /\ UNCHANGED standalone

\* The element of app.py:100.
generation_error(e) ==
    Element("exception", <<"An error occurred during generation: ", e>>)

\* app.py:99-101, entered from a statement of the try block that raised e:
\* st.exception, then st.stop().
Handle(e) ==
    /\ caught' = Bound(e)
    /\ ui' = Append(ui, generation_error(e))
    /\ pc' = "stopped"

\* app.py:89-91 raise before the call is made (the client refuses to be
\* built, as it does without an API key).
SetupFails(e) ==
    /\ pc = "generate"
    /\ Handle(e)
    /\ UNCHANGED <<description, platform, tone, language, num_variants, calls,
                   raw_output, captions, summary>>
    /\ UNCHANGED standalone

Call(kind, messages) ==
    [kind |-> kind, system |-> messages.system, user |-> messages.user]

\* app.py:89-93: the prompt is built and chain.run sends it; the script
\* blocks until the API answers.
CaptionCall ==
    /\ pc = "generate"
    /\ LET prompt == build_prompt_template(platform, tone, description,
                                           num_variants, language)
       IN  calls' = Append(calls, Call("caption", format_messages(prompt, description)))
    /\ pc' = "caption_call"
    /\ UNCHANGED <<description, platform, tone, language, num_variants,
                   raw_output, captions, caught, summary, ui>>
    /\ UNCHANGED standalone

\* Mutant: the handler shows the error and does not stop the script.
CaptionFail_no_stop(e) ==
    /\ pc = "caption_call"
    /\ caught' = Bound(e)
    /\ ui' = Append(ui, generation_error(e))
    /\ pc' = "render"
    /\ UNCHANGED <<description, platform, tone, language, num_variants, calls,
                   raw_output, captions, summary>>
    /\ UNCHANGED standalone

\* chain.run raises (app.py:93, 99-101).
CaptionFail(e) ==
    /\ pc = "caption_call"
    /\ Handle(e)
    /\ UNCHANGED <<description, platform, tone, language, num_variants, calls,
                   raw_output, captions, summary>>
    /\ UNCHANGED standalone

\* chain.run returns raw; it is parsed (app.py:93-94).
CaptionReturn(raw) ==
    /\ pc = "caption_call"
    /\ raw_output' = Bound(raw)
    /\ captions' = Bound(parse_captions(raw))
    /\ pc' = "parsed"
    /\ UNCHANGED <<description, platform, tone, language, num_variants, calls,
                   caught, summary, ui>>
    /\ UNCHANGED standalone

\* Mutant: the fallback caption is the raw output as returned.
fallback_captions_untrimmed(raw) == <<raw>>

\* [raw_output.strip()] (app.py:97)
fallback_captions(raw) == <<Strip(raw)>>

\* app.py:95-97, the branch taken when the parser returned nothing.
Fallback ==
    /\ pc = "parsed"
    /\ ValueOf(captions) = <<>>
    /\ captions' = Bound(fallback_captions(ValueOf(raw_output)))
    /\ pc' = "render"
    /\ UNCHANGED <<description, platform, tone, language, num_variants, calls,
                   raw_output, caught, summary, ui>>
    /\ UNCHANGED standalone

\* app.py:95, the branch not taken.
KeepParsed ==
    /\ pc = "parsed"
    /\ ValueOf(captions) # <<>>
    /\ pc' = "render"
    /\ UNCHANGED <<description, platform, tone, language, num_variants, calls,
                   raw_output, captions, caught, summary, ui>>
    /\ UNCHANGED standalone

\* Mutant: every caption is shown.
shown_captions_all(list, n) == list

\* captions[:num_variants] (app.py:104, 111)
shown_captions(list, n) == Slice(list, n)

\* enumerate(list, start)
Enumerate(list, start) ==
    [i \in 1..Len(list) |-> [idx |-> start + i - 1, item |-> list[i]]]

\* The three elements of one loop iteration (app.py:105-107).
caption_elements(idx, cap) ==
    <<Element("markdown", <<"**", ToString(idx), ".** ">> \o cap),
      Element("code", cap),
      Element("markdown", <<"---">>)>>

\* app.py:103-107.
RenderCaptions ==
    /\ pc = "render"
    /\ LET numbered == Enumerate(shown_captions(ValueOf(captions), num_variants), 1)
       IN  ui' = ui \o <<Element("subheader", <<"Caption ideas">>)>>
                    \o Concat([i \in 1..Len(numbered) |->
                                  caption_elements(numbered[i].idx, numbered[i].item)])
    /\ pc' = "copy"
    /\ UNCHANGED <<description, platform, tone, language, num_variants, calls,
                   raw_output, captions, caught, summary>>
    /\ UNCHANGED standalone

\* joined of app.py:111.
joined(list, n) ==
    LET numbered == Enumerate(shown_captions(list, n), 1)
    IN  Join("\n", [i \in 1..Len(numbered) |->
                       <<ToString(numbered[i].idx), ". ">> \o numbered[i].item])

\* app.py:110-112.
RenderCopyBlock ==
    /\ pc = "copy"
    /\ ui' = ui \o <<Element("subheader", <<"Copy all">>),
                     Element("text_area", joined(ValueOf(captions), num_variants))>>
    /\ pc' = "summary"
    /\ UNCHANGED <<description, platform, tone, language, num_variants, calls,
                   raw_output, captions, caught, summary>>
    /\ UNCHANGED standalone

\* Mutant: the summary call is issued as soon as the captions are known.
SummaryCall_before_render ==
    /\ pc = "render"
    /\ ui' = Append(ui, Element("subheader", <<"Summary of the description (optional)">>))
    /\ calls' = Append(calls, Call("summary", format_messages(summary_prompt, description)))
    /\ pc' = "summary_call"
    /\ UNCHANGED <<description, platform, tone, language, num_variants,
                   raw_output, captions, caught, summary>>
    /\ UNCHANGED standalone

\* app.py:115-124: the summary prompt is built and summary_chain.run sends it.
SummaryCall ==
    /\ pc = "summary"
    /\ ui' = Append(ui, Element("subheader", <<"Summary of the description (optional)">>))
    /\ calls' = Append(calls, Call("summary", format_messages(summary_prompt, description)))
    /\ pc' = "summary_call"
    /\ UNCHANGED <<description, platform, tone, language, num_variants,
                   raw_output, captions, caught, summary>>
    /\ UNCHANGED standalone

\* app.py:124-125.
SummaryReturn(text) ==
    /\ pc = "summary_call"
    /\ summary' = Bound(text)
    /\ ui' = Append(ui, Element("info", <<"Summary: ">> \o Strip(text)))
    /\ pc' = "done"
    /\ UNCHANGED <<description, platform, tone, language, num_variants, calls,
                   raw_output, captions, caught>>
    /\ UNCHANGED standalone

summary_unavailable == Element("info", <<"The summary could not be generated.">>)

\* Mutant: the failure of the summary call is handled like a generation error.
SummaryFail_uncaught ==
    /\ pc = "summary_call"
    /\ ui' = Append(ui, generation_error("timeout"))
    /\ pc' = "stopped"
    /\ UNCHANGED <<description, platform, tone, language, num_variants, calls,
                   raw_output, captions, caught, summary>>
    /\ UNCHANGED standalone

\* summary_chain.run raises (app.py:124, 126-127).
SummaryFail ==
    /\ pc = "summary_call"
    /\ ui' = Append(ui, summary_unavailable)
    /\ pc' = "done"
    /\ UNCHANGED <<description, platform, tone, language, num_variants, calls,
                   raw_output, captions, caught, summary>>
    /\ UNCHANGED standalone

Next ==
    \/ \E d \in DescriptionSamples, form \in FormSamples, n \in VariantSamples :
           Submit(d, form, n)
    \/ ValidateFail
    \/ ValidateOk
    \/ \E e \in Causes : SetupFails(e)
    \/ CaptionCall
    \/ \E e \in Causes : CaptionFail(e)
    \/ \E raw \in Replies : CaptionReturn(raw)
    \/ Fallback
    \/ KeepParsed
    \/ RenderCaptions
    \/ RenderCopyBlock
    \/ SummaryCall
    \/ \E text \in SummaryReplies : SummaryReturn(text)
    \/ SummaryFail
    \/ Rerun

Spec == Init /\ [][Next]_vars

(***************************************************************************)
(* What the parser is required to compute, stated on positions of the raw  *)
(* text rather than by the code's string methods.                          *)
(***************************************************************************)
\* The positions at which a line of raw starts.
LineStarts(raw) ==
    {a \in 1..Len(raw) : a = 1 \/ raw[a - 1] = "\n"}

\* The last position of the line that starts at a (a - 1 for an empty line).
LineEnd(raw, a) ==
    CHOOSE b \in (a - 1)..Len(raw) :
        /\ \A j \in a..b : raw[j] # "\n"
        /\ b = Len(raw) \/ raw[b + 1] = "\n"

LineAt(raw, a) == SubSeq(raw, a, LineEnd(raw, a))

HasInk(s) == \E j \in 1..Len(s) : ~IsSpace(s[j])

\* The starts of the lines that are not empty once trimmed.
NonEmptyLineStarts(raw) == {a \in LineStarts(raw) : HasInk(LineAt(raw, a))}

\* The i-th smallest element of a set of numbers.
Nth(S, i) == CHOOSE a \in S : Cardinality({b \in S : b < a}) = i - 1

\* s without its leading and trailing whitespace.
Trimmed(s) ==
    IF ~HasInk(s) THEN <<>>
    ELSE LET ink == {j \in 1..Len(s) : ~IsSpace(s[j])}
             lo == CHOOSE j \in ink : \A k \in ink : j <= k
             hi == CHOOSE j \in ink : \A k \in ink : k <= j
         IN  SubSeq(s, lo, hi)

\* The i-th non-empty line of raw, trimmed.
NonEmptyLine(raw, i) == Trimmed(LineAt(raw, Nth(NonEmptyLineStarts(raw), i)))

\* The text of line after the first occurrence of c, trimmed.
AfterFirst(line, c) ==
    LET k == CHOOSE j \in 1..Len(line) :
                 line[j] = c /\ \A m \in 1..(j - 1) : line[m] # c
    IN  Trimmed(SubSeq(line, k + 1, Len(line)))

Occurs(line, c) == \E j \in 1..Len(line) : line[j] = c

\* First delimiter wins: "." is looked for before ")".
ExpectedCaption(line) ==
    IF IsDigit(line[1]) /\ Occurs(line, ".") THEN AfterFirst(line, ".")
    ELSE IF IsDigit(line[1]) /\ Occurs(line, ")") THEN AfterFirst(line, ")")
    ELSE line

C6_OrderAndLength ==
    IsBound(parse_out) =>
        LET out == ValueOf(parse_out)
            starts == NonEmptyLineStarts(parse_in)
        IN  /\ Len(out) = Cardinality(starts)
            /\ \A i \in 1..Len(out) :
                   out[i] = clean_line(NonEmptyLine(parse_in, i))
            /\ parse_in = <<>> => out = <<>>

\* Two equal captions around a blank line were both kept, in order.
C6_Witness ==
    /\ parse_in = <<"a", "\n", " ", "\n", "a">>
    /\ parse_out = Bound(<< <<"a">>, <<"a">> >>)

(***************************************************************************)
(* Properties of the script run.                                           *)
(***************************************************************************)
OfKind(kind) == SelectSeq(ui, LAMBDA el : el.kind = kind)

\* The "**i.** caption" headings of the page.
Headings == SelectSeq(ui, LAMBDA el : el.kind = "markdown" /\ el.text # <<"---">>)

Smaller(a, b) == IF a < b THEN a ELSE b

\* C1: a submission whose description is empty or whitespace-only stops with
\* the validation error before any completion-API call: no call is ever
\* issued in it and no caption is rendered.
C1_BlankDescriptionStops ==
    (pc # "idle" /\ ~HasInk(description)) =>
        /\ pc \in {"validate", "stopped"}
        /\ calls = <<>>
        /\ ~IsBound(raw_output) /\ ~IsBound(captions)
        /\ pc = "validate" => ui = <<>>
        /\ pc = "stopped" =>
               ui = <<Element("error", <<"Please enter a description.">>)>>

\* A whitespace-only description was refused.
C1_Witness ==
    /\ pc = "stopped"
    /\ description = <<"\n", " ">>
    /\ OfKind("error") # <<>>
    /\ calls = <<>>

\* C2: once generation has succeeded the caption list is never empty: it is
\* the one-element list of the trimmed raw completion if the parser returned
\* nothing, and the parser's result otherwise.
C2_CaptionListNeverEmpty ==
    pc \in {"render", "copy", "summary", "summary_call", "done"} =>
        /\ IsBound(raw_output) /\ IsBound(captions)
        /\ LET raw == ValueOf(raw_output)
               parsed == parse_captions(raw)
               list == ValueOf(captions)
           IN  /\ list # <<>>
               /\ parsed = <<>> => list = <<Trimmed(raw)>>
               /\ parsed # <<>> => list = parsed

\* A completion of white space alone ended as the single caption "".
C2_Witness ==
    /\ pc = "done"
    /\ raw_output = Bound(<<" ", "\n">>)
    /\ captions = Bound(<< <<>> >>)

\* C3: a failure of the caption call is caught and shown as the generation
\* error with its cause, and the submission stops there: the call was made
\* once, nothing of the captions or the copy block is rendered and no
\* summary call is issued.
C3_CaptionFailureStops ==
    (IsBound(caught) /\ calls # <<>>) =>
        /\ pc = "stopped"
        /\ Len(calls) = 1 /\ calls[1].kind = "caption"
        /\ ui = <<Element("exception",
                          <<"An error occurred during generation: ", ValueOf(caught)>>)>>
        /\ ~IsBound(raw_output) /\ ~IsBound(captions) /\ ~IsBound(summary)

\* The caption call was made and raised.
C3_Witness ==
    /\ pc = "stopped"
    /\ caught = Bound("timeout")
    /\ Len(calls) = 1
    /\ OfKind("exception") # <<>>

\* C4: a failure of the summary call never surfaces as an error: the step
\* that ends the call without a summary appends the "not available" notice
\* and nothing else, leaves the page rendered so far and the captions as
\* they were, and ends the run normally.
C4_SummaryFailureContained ==
    /\ [][(pc = "summary_call" /\ pc' # "summary_call" /\ ~IsBound(summary')) =>
             /\ pc' = "done"
             /\ ui' = Append(ui, summary_unavailable)
             /\ captions' = captions
             /\ caught' = caught]_vars
    /\ []((pc = "done" /\ ~IsBound(summary)) =>
             /\ OfKind("error") = <<>> /\ OfKind("exception") = <<>>
             /\ ~IsBound(caught)
             /\ Len(OfKind("text_area")) = 1
             /\ ui[Len(ui)] = summary_unavailable)

\* The summary call failed after two captions and the copy block were shown.
C4_Witness ==
    /\ pc = "done"
    /\ ~IsBound(summary)
    /\ ui[Len(ui)] = summary_unavailable
    /\ Len(OfKind("code")) = 2
    /\ Len(OfKind("text_area")) = 1

\* The copy block of the first n entries of list.
ExpectedCopyBlock(list, n) ==
    Concat([i \in 1..n |->
               (IF i = 1 THEN <<>> ELSE <<"\n">>) \o <<ToString(i), ". ">> \o list[i]])

\* C7: on a successful submission the page shows exactly the first
\* min(num_variants, length) captions in order, the copy block is those
\* entries as "i. caption" lines numbered from 1 and joined by newlines, and
\* the caption list itself still holds every parsed line.
C7_DisplayTruncates ==
    pc \in {"summary", "summary_call", "done"} =>
        LET list == ValueOf(captions)
            n == Smaller(num_variants, Len(list))
            lines == Cardinality(NonEmptyLineStarts(ValueOf(raw_output)))
        IN  /\ Len(OfKind("code")) = n
            /\ Len(Headings) = n
            /\ \A i \in 1..n :
                   /\ OfKind("code")[i].text = list[i]
                   /\ Headings[i].text = <<"**", ToString(i), ".** ">> \o list[i]
            /\ Len(OfKind("text_area")) = 1
            /\ OfKind("text_area")[1].text = ExpectedCopyBlock(list, n)
            /\ Len(list) = (IF lines = 0 THEN 1 ELSE lines)

\* More captions were parsed than asked for, and only num_variants are shown.
C7_Witness ==
    /\ pc = "done"
    /\ Len(ValueOf(captions)) > num_variants
    /\ Len(OfKind("code")) = num_variants
    /\ ValueOf(captions)[1] # ValueOf(captions)[2]

\* C8: a submission issues at most one caption call and at most one summary
\* call, in that order, and the summary call is issued only after the
\* caption call has returned and the captions and the copy block are on the
\* page.
C8_CallsSequential ==
    /\ Len(calls) <= 2
    /\ Len(calls) >= 1 => calls[1].kind = "caption"
    /\ Len(calls) = 2 =>
           /\ calls[2].kind = "summary"
           /\ pc \in {"summary_call", "done"}
           /\ IsBound(raw_output) /\ IsBound(captions)
           /\ Len(OfKind("code")) = Smaller(num_variants, Len(ValueOf(captions)))
           /\ Len(OfKind("text_area")) = 1

\* The summary call is in flight.
C8_Witness ==
    /\ pc = "summary_call"
    /\ Len(calls) = 2
    /\ calls[1].kind = "caption" /\ calls[2].kind = "summary"

\* C10: the fallback branch is taken only for a raw completion that is empty
\* or white space alone, and the single caption it produces is then the
\* empty string; a raw completion with any other character never reaches it.
C10_FallbackOnlyForBlank ==
    /\ [][(pc = "parsed" /\ pc' = "render" /\ captions' # captions) =>
             /\ ~HasInk(ValueOf(raw_output))
             /\ captions' = Bound(<< <<>> >>)]_vars
    /\ []((pc = "parsed" /\ HasInk(ValueOf(raw_output))) => ValueOf(captions) # <<>>)

\* The fallback was taken for a completion of white space.
C10_Witness ==
    /\ pc = "render"
    /\ raw_output = Bound(<<" ", "\n", " ">>)
    /\ captions = Bound(<< <<>> >>)

(***************************************************************************)
(* Properties of the prompt builder.                                       *)
(***************************************************************************)
\* C9: the prompt is a function of its arguments: the system instruction is
\* determined by platform, tone and num_variants and the user content by
\* the description, so two constructions from the same arguments, or from
\* arguments that differ only in the language, give the same pair.
C9_PromptDeterminedByInputs ==
    (IsBound(prompt_out[1]) /\ IsBound(prompt_out[2])) =>
        LET a == prompt_args[1]
            b == prompt_args[2]
            x == ValueOf(prompt_out[1])
            y == ValueOf(prompt_out[2])
        IN  /\ (a.platform = b.platform /\ a.tone = b.tone
                    /\ a.num_variants = b.num_variants) => x.system = y.system
            /\ a.description = b.description => x.user = y.user
            /\ [a EXCEPT !.language = b.language] = b => x = y

\* Two prompts built from arguments that differ in the language alone.
C9_Witness ==
    /\ IsBound(prompt_out[1]) /\ IsBound(prompt_out[2])
    /\ prompt_args[1].language # prompt_args[2].language
    /\ [prompt_args[1] EXCEPT !.language = prompt_args[2].language] = prompt_args[2]
    /\ prompt_out[1] = prompt_out[2]

====
